---- MODULE Spec2Model ----
(***************************************************************************)
(* json-tcp-lb: a line based TCP load balancing proxy (src/main.go).       *)
(*                                                                         *)
(* One goroutine per inbound connection (receive) frames the byte stream   *)
(* on the last newline of every read window and puts the records on a      *)
(* buffered channel; connections*len(targets) workers (transmit) take      *)
(* records from the channel and write them to a target, retrying forever.  *)
(* proxy starts the workers, accepts inbound connections and waits for the *)
(* workers once the accept loop has ended.                                 *)
(*                                                                         *)
(* Time is abstract: a tick of a worker's one-second ticker may be ready   *)
(* at any select, and the age of a connection advances in whole minutes.   *)
(***************************************************************************)
EXTENDS Integers, Sequences, FiniteSets, TLC

\* ---------------------------------------------------------------- bounds
MaxStream  == 2      \* bytes the inbound connection delivers at most
MaxWindow  == 2      \* bytes one conn.Read returns at most
MaxPool    == 4      \* connections * len(targets) at most, where only start-up is followed
MaxQueueStream == 3  \* bytes the inbound connection delivers at most, one worker running
MaxFrameStream == 7  \* bytes the inbound connection delivers at most, framing followed
MaxSleeps  == 7      \* sleeps of one ConnectWithRetries recorded at most, backoff followed
MaxPoolStream == 3   \* bytes the inbound connection delivers at most, bufPool followed

\* ------------------------------------------------------ program constants
bufferSize     == 16384   \* const bufferSize
InitialDelay   == 2       \* delay := 2 * time.Second
MaxDelay       == 30      \* if delay > 30*time.Second
ReconnectAfter == 5       \* time.Since(w.lastReconnect) > 5*time.Minute
IdleTicks      == 5       \* exit && idleCount >= 5
PoolMaxCap     == 1048576 \* b.Cap() <= 1024*1024

NL    == "\n"
Bytes == {"a", NL}

\* The read windows of the example of README/spec: "a\nb\nc" then "d\n".
ExampleWindow1 == <<"a", NL, "b", NL, "c">>
ExampleWindow2 == <<"d", NL>>
None  == [src |-> 0, data |-> <<>>]   \* no record (a nil *bytes.Buffer)

Inbound == {1}            \* the inbound connections that may arrive
Workers == 0 .. (MaxPool - 1)

Min(a, b) == IF a < b THEN a ELSE b

\* The (connections, len(targets)) pairs of the command line that are followed:
\* one or two workers on one target; one worker on each of two targets; and,
\* where only the start-up is followed, every pool of up to MaxPool workers.
Configs         == {<<1, 1>>, <<2, 1>>}
FailoverConfigs == {<<1, 2>>}
PoolConfigs     == {c \in (1 .. MaxPool) \X (1 .. MaxPool) : c[1] * c[2] <= MaxPool}

\* What one conn.Read may return: 1 .. min(len(buf), MaxWindow) bytes.
Windows == UNION {[1 .. n -> Bytes] : n \in 1 .. Min(bufferSize, MaxWindow)}
FrameWindows == Windows \cup {ExampleWindow1, ExampleWindow2}

VARIABLES
    connections, ntargets,      \* proxy's arguments
    streamMax,                  \* the bytes an inbound connection delivers at most
    sleepsMax,                  \* the sleeps of one ConnectWithRetries that are recorded at most
    poolReuse,                  \* bufPool.Get may hand out a buffer that was Put
    growTo,                     \* the capacities a buffer may grow to when it is written to
    ppc, spawnIdx,              \* proxy: position, loop variable i
    ret,                        \* proxy: the error returned ("none" before it returns)
    cancelled, listenerOpen,    \* ctx is done; l is not closed
    fpc, stringbuf, rest,       \* receive: position, stringbuf, buf[lastNewlineIndex+1:n]
    connClosed,                 \* the inbound conn is closed on this side
    inbound, eof,               \* history: the windows read; Read returned the peer's EOF
    queue,                      \* outputChan
    bufCap, pool,               \* the capacity of every buffer made; bufPool
    fbuf, qbuf, hbuf,           \* the buffer of receive's stringbuf, of the records in
                                \* outputChan, of transmit's b (0: none)
    enqueued, dequeued, written,\* history: records sent to, received from the channel, written
    wpc, targetIdx, dialIdx, delay, sleeps, conn, openConns, since,
    idleCount, exit, held       \* transmit / Worker
    \* openConns is history: the connections the worker dialed that are not closed.
    \* sleeps is history: the arguments of the time.Sleep calls of the worker's
    \* running ConnectWithRetries, the first sleepsMax of them.

vars == <<connections, ntargets, streamMax, sleepsMax, poolReuse, growTo, ppc, spawnIdx, ret, cancelled, listenerOpen,
          fpc, stringbuf, rest, connClosed, inbound, eof,
          queue, enqueued, dequeued, written, bufCap, pool, fbuf, qbuf, hbuf,
          wpc, targetIdx, dialIdx, delay, sleeps, conn, openConns, since,
          idleCount, exit, held>>

cfgVars    == <<connections, ntargets, streamMax, sleepsMax, poolReuse, growTo>>
proxyVars  == <<cfgVars, ppc, spawnIdx, ret, cancelled, listenerOpen>>
framerVars == <<fpc, stringbuf, rest, connClosed, inbound, eof>>
workerVars == <<wpc, targetIdx, dialIdx, delay, sleeps, conn, openConns, since, idleCount, exit, held>>
logVars    == <<enqueued, dequeued, written>>
bufVars    == <<bufCap, pool, fbuf, qbuf, hbuf>>

\* --------------------------------------------------------------- helpers
RECURSIVE Flatten(_)
Flatten(ss) == IF ss = <<>> THEN <<>> ELSE Head(ss) \o Flatten(Tail(ss))

\* Mutant: bytes.IndexByte, the index of the first c in s.
RECURSIVE LastIndexByte_First(_, _)
LastIndexByte_First(s, c) ==
    IF Len(s) = 0 THEN -1
    ELSE IF s[1] = c THEN 0
    ELSE LET r == LastIndexByte_First(Tail(s), c) IN IF r = -1 THEN -1 ELSE r + 1

\* bytes.LastIndexByte: the 0-based index of the last c in s, or -1.
RECURSIVE LastIndexByte(_, _)
LastIndexByte(s, c) ==
    IF Len(s) = 0 THEN -1
    ELSE IF s[Len(s)] = c THEN Len(s) - 1
    ELSE LastIndexByte(SubSeq(s, 1, Len(s) - 1), c)

\* Mutant: one slot short.
QueueCap_OneShort == connections * ntargets * 2 - 1

\* Mutant: a channel of one slot for each worker.
QueueCap_PoolSize == connections * ntargets

\* make(chan *bytes.Buffer, connections*len(targets)*2)
QueueCap == connections * ntargets * 2

\* The pool size: the bound of proxy's loop.
PoolSize == connections * ntargets

Spawned(k) == k < spawnIdx

\* buf.Grow(bufferSize * 2) in bufPool.New
InitialCap == bufferSize * 2

\* What bufPool.Get() may return: a buffer New makes, or one that was Put.
GetChoices ==
    {[id |-> Len(bufCap) + 1, data |-> <<>>, new |-> TRUE]} \cup
    (IF poolReuse THEN {[id |-> b.id, data |-> b.data, new |-> FALSE] : b \in pool} ELSE {})

\* stringbuf = bufPool.Get().(*bytes.Buffer), the choice g taken.
Get(i, g) ==
    /\ fbuf' = [fbuf EXCEPT ![i] = g.id]
    /\ bufCap' = IF g.new THEN Append(bufCap, InitialCap) ELSE bufCap
    /\ pool' = pool \ {[id |-> g.id, data |-> g.data]}

\* The capacities a buffer of capacity c may have after a Write: bytes.Buffer
\* grows when the bytes do not fit. The windows of the model are not to scale,
\* so any capacity of growTo above c stands for a Write that did not fit.
CapsAfterWrite(c) == {c} \cup {d \in growTo : d > c}

\* Mutant: every buffer goes back to the pool.
Pooled_Always(c) == TRUE

\* if b.Cap() <= 1024*1024
Pooled(c) == c <= PoolMaxCap

\* bufPool after if b.Cap() <= 1024*1024 { b.Reset(); bufPool.Put(b) }
Release(id, data) ==
    IF Pooled(bufCap[id]) THEN pool \cup {[id |-> id, data |-> <<>>]} ELSE pool

\* w.conn: the index of the target the worker's connection goes to, NoConn for nil.
NoConn == 0 - 1
Connected(k) == conn[k] # NoConn

InitPooled(cfgs, maxStream, maxSleeps, reuse, grow) ==
    /\ \E c \in cfgs : connections = c[1] /\ ntargets = c[2]
    /\ streamMax = maxStream
    /\ sleepsMax = maxSleeps
    /\ poolReuse = reuse /\ growTo = grow
    /\ bufCap = <<>> /\ pool = {} /\ qbuf = <<>>
    /\ fbuf = [i \in Inbound |-> 0]
    /\ hbuf = [k \in Workers |-> 0]
    /\ ppc = "spawn" /\ spawnIdx = 0 /\ ret = "none"
    /\ cancelled = FALSE /\ listenerOpen = TRUE
    /\ fpc = [i \in Inbound |-> "idle"]
    /\ stringbuf = [i \in Inbound |-> <<>>]
    /\ rest = [i \in Inbound |-> <<>>]
    /\ connClosed = [i \in Inbound |-> FALSE]
    /\ inbound = [i \in Inbound |-> <<>>]
    /\ eof = [i \in Inbound |-> FALSE]
    /\ queue = <<>> /\ enqueued = <<>> /\ dequeued = <<>> /\ written = <<>>
    /\ wpc = [k \in Workers |-> "none"]
    /\ targetIdx = [k \in Workers |-> 0]
    /\ dialIdx = [k \in Workers |-> 0]
    /\ delay = [k \in Workers |-> InitialDelay]
    /\ sleeps = [k \in Workers |-> <<>>]
    /\ conn = [k \in Workers |-> NoConn]
    /\ openConns = [k \in Workers |-> 0]
    /\ since = [k \in Workers |-> 0]
    /\ idleCount = [k \in Workers |-> 0]
    /\ exit = [k \in Workers |-> FALSE]
    /\ held = [k \in Workers |-> None]

\* The entry state where every bufPool.Get makes a new buffer and no buffer grows.
InitTraced(cfgs, maxStream, maxSleeps) == InitPooled(cfgs, maxStream, maxSleeps, FALSE, {})

\* The entry state with no sleep recorded.
InitWith(cfgs, maxStream) == InitTraced(cfgs, maxStream, 0)

Init == InitWith(Configs, MaxStream)

\* ------------------------------------------------------------ proxy
\* The signal handler of listenAndProxy calls cancel().
Cancel ==
    /\ ~cancelled
    /\ cancelled' = TRUE
    /\ UNCHANGED <<cfgVars, ppc, spawnIdx, ret, listenerOpen,
                   framerVars, queue, logVars, bufVars, workerVars>>

\* Mutant: every worker is given the first target.
SpawnTarget_First(idx) == 0

\* One iteration of proxy's loop: go transmit(ctx, idx+1, outputChan, targets, idx % len(targets)).
\* The new worker stands at the head of its first ConnectWithRetries.
SpawnTarget(idx) == idx % ntargets

ProxySpawn ==
    /\ ppc = "spawn"
    /\ spawnIdx < PoolSize
    /\ wpc' = [wpc EXCEPT ![spawnIdx] = "dial"]
    /\ targetIdx' = [targetIdx EXCEPT ![spawnIdx] = SpawnTarget(spawnIdx)]
    /\ dialIdx' = [dialIdx EXCEPT ![spawnIdx] = SpawnTarget(spawnIdx)]
    /\ delay' = [delay EXCEPT ![spawnIdx] = InitialDelay]
    /\ sleeps' = [sleeps EXCEPT ![spawnIdx] = <<>>]
    /\ spawnIdx' = spawnIdx + 1
    /\ ppc' = IF spawnIdx + 1 < PoolSize THEN "spawn" ELSE "accept"
    /\ UNCHANGED <<cfgVars, ret, cancelled, listenerOpen, framerVars,
                   queue, logVars, bufVars, conn, openConns, since, idleCount, exit, held>>

\* go func() { <-ctx.Done(); l.Close() }()
CloseListener ==
    /\ ppc # "spawn"
    /\ cancelled /\ listenerOpen
    /\ listenerOpen' = FALSE
    /\ UNCHANGED <<cfgVars, ppc, spawnIdx, ret, cancelled,
                   framerVars, queue, logVars, bufVars, workerVars>>

\* l.Accept() returns a connection: go receive(conn, outputChan).
Accept(i) ==
    /\ ppc = "accept" /\ listenerOpen
    /\ fpc[i] = "idle"
    /\ fpc' = [fpc EXCEPT ![i] = "read"]
    /\ \E g \in GetChoices :
         /\ Get(i, g)
         /\ stringbuf' = [stringbuf EXCEPT ![i] = g.data]
    /\ UNCHANGED <<proxyVars, rest, connClosed, inbound, eof,
                   queue, logVars, qbuf, hbuf, workerVars>>

\* l.Accept() returns an error (the listener is closed, or any other error): break.
AcceptFail ==
    /\ ppc = "accept"
    /\ ppc' = "wait"
    /\ UNCHANGED <<cfgVars, spawnIdx, ret, cancelled, listenerOpen,
                   framerVars, queue, logVars, bufVars, workerVars>>

\* Mutant: proxy returns as soon as the accept loop has ended.
ProxyReturn_NoWait ==
    /\ ppc = "wait"
    /\ ppc' = "returned" /\ ret' = "nil"
    /\ UNCHANGED <<cfgVars, spawnIdx, cancelled, listenerOpen,
                   framerVars, queue, logVars, bufVars, workerVars>>

\* Mutant: the accept loop assigns the err that proxy returns.
ProxyReturn_AcceptErr ==
    /\ ppc = "wait"
    /\ \A k \in Workers : Spawned(k) => wpc[k] = "done"
    /\ ppc' = "returned" /\ ret' = "accept error"
    /\ UNCHANGED <<cfgVars, spawnIdx, cancelled, listenerOpen,
                   framerVars, queue, logVars, bufVars, workerVars>>

\* wg.Wait() returns once every worker has called wg.Done(); return err: the err
\* of var err error, which is nil, the accept loop's conn, err := l.Accept()
\* declaring an err of its own.
ProxyReturn ==
    /\ ppc = "wait"
    /\ \A k \in Workers : Spawned(k) => wpc[k] = "done"
    /\ ppc' = "returned" /\ ret' = "nil"
    /\ UNCHANGED <<cfgVars, spawnIdx, cancelled, listenerOpen,
                   framerVars, queue, logVars, bufVars, workerVars>>

\* go func() { <-ctx.Done(); conn.Close() }()
ConnWatcher(i) ==
    /\ cancelled
    /\ fpc[i] # "idle" /\ ~connClosed[i]
    /\ connClosed' = [connClosed EXCEPT ![i] = TRUE]
    /\ UNCHANGED <<proxyVars, fpc, stringbuf, rest, inbound, eof,
                   queue, logVars, bufVars, workerVars>>

\* ------------------------------------------------------------ receive
Rec(i, data) == [src |-> i, data |-> data]

StreamLen(i) == Len(Flatten(inbound[i]))

\* conn.Read returned the window w without error: frame it on its last newline.
\* With a newline the goroutine next stands at out <- stringbuf, the bytes after
\* the newline still in buf.
ReadWindow(i, w) ==
    /\ fpc[i] = "read" /\ ~connClosed[i]
    /\ Len(w) <= bufferSize
    /\ StreamLen(i) + Len(w) <= streamMax
    /\ LET lastNewlineIndex == LastIndexByte(w, NL) IN
         IF lastNewlineIndex # -1
         THEN /\ stringbuf' = [stringbuf EXCEPT ![i] = @ \o SubSeq(w, 1, lastNewlineIndex + 1)]
              /\ rest' = [rest EXCEPT ![i] = SubSeq(w, lastNewlineIndex + 2, Len(w))]
              /\ fpc' = [fpc EXCEPT ![i] = "send"]
         ELSE /\ stringbuf' = [stringbuf EXCEPT ![i] = @ \o w]
              /\ UNCHANGED <<rest, fpc>>
    /\ \E c \in CapsAfterWrite(bufCap[fbuf[i]]) : bufCap' = [bufCap EXCEPT ![fbuf[i]] = c]
    /\ inbound' = [inbound EXCEPT ![i] = Append(@, w)]
    /\ UNCHANGED <<proxyVars, connClosed, eof, queue, logVars,
                   pool, fbuf, qbuf, hbuf, workerVars>>

\* Mutant: receive goes on with the buffer it has sent.
Send_KeepBuffer(i) ==
    /\ fpc[i] = "send"
    /\ Len(queue) < QueueCap
    /\ queue' = Append(queue, Rec(i, stringbuf[i]))
    /\ enqueued' = Append(enqueued, Rec(i, stringbuf[i]))
    /\ qbuf' = Append(qbuf, fbuf[i])
    /\ stringbuf' = [stringbuf EXCEPT ![i] = rest[i]]
    /\ rest' = [rest EXCEPT ![i] = <<>>]
    /\ fpc' = [fpc EXCEPT ![i] = "read"]
    /\ UNCHANGED <<proxyVars, connClosed, inbound, eof, dequeued, written,
                   bufCap, pool, fbuf, hbuf, workerVars>>

\* out <- stringbuf; stringbuf = bufPool.Get(); stringbuf.Write(buf[lastNewlineIndex+1 : n])
Send(i) ==
    /\ fpc[i] = "send"
    /\ Len(queue) < QueueCap
    /\ queue' = Append(queue, Rec(i, stringbuf[i]))
    /\ enqueued' = Append(enqueued, Rec(i, stringbuf[i]))
    /\ qbuf' = Append(qbuf, fbuf[i])
    /\ \E g \in GetChoices :
         /\ Get(i, g)
         /\ stringbuf' = [stringbuf EXCEPT ![i] = g.data \o rest[i]]
    /\ rest' = [rest EXCEPT ![i] = <<>>]
    /\ fpc' = [fpc EXCEPT ![i] = "read"]
    /\ UNCHANGED <<proxyVars, connClosed, inbound, eof, dequeued, written, hbuf, workerVars>>

\* Mutant: the final flush without its test of stringbuf.Len().
AfterLoop_AlwaysFlush(i) ==
    /\ fpc' = [fpc EXCEPT ![i] = "sendFinal"]
    /\ UNCHANGED connClosed

\* After the loop: if stringbuf.Len() > 0 the goroutine stands at the final
\* out <- stringbuf, else it returns (defer conn.Close()).
AfterLoop(i) ==
    IF Len(stringbuf[i]) > 0
    THEN /\ fpc' = [fpc EXCEPT ![i] = "sendFinal"]
         /\ UNCHANGED connClosed
    ELSE /\ fpc' = [fpc EXCEPT ![i] = "done"]
         /\ connClosed' = [connClosed EXCEPT ![i] = TRUE]

\* conn.Read returns io.EOF: the peer closed after the bytes read so far.
ReadEOF(i) ==
    /\ fpc[i] = "read" /\ ~connClosed[i]
    /\ eof' = [eof EXCEPT ![i] = TRUE]
    /\ AfterLoop(i)
    /\ UNCHANGED <<proxyVars, stringbuf, rest, inbound, queue, logVars, bufVars, workerVars>>

\* conn.Read returns net.ErrClosed: the connection was closed on this side.
ReadClosed(i) ==
    /\ fpc[i] = "read" /\ connClosed[i]
    /\ AfterLoop(i)
    /\ UNCHANGED <<proxyVars, stringbuf, rest, inbound, eof, queue, logVars, bufVars, workerVars>>

\* The final out <- stringbuf, then return (defer conn.Close()).
SendFinal(i) ==
    /\ fpc[i] = "sendFinal"
    /\ Len(queue) < QueueCap
    /\ queue' = Append(queue, Rec(i, stringbuf[i]))
    /\ enqueued' = Append(enqueued, Rec(i, stringbuf[i]))
    /\ qbuf' = Append(qbuf, fbuf[i])
    /\ fpc' = [fpc EXCEPT ![i] = "done"]
    /\ connClosed' = [connClosed EXCEPT ![i] = TRUE]
    /\ UNCHANGED <<proxyVars, stringbuf, rest, inbound, eof, dequeued, written,
                   bufCap, pool, fbuf, hbuf, workerVars>>

\* ------------------------------------------------------------ Worker
\* Mutant: WriteWithRetries is given the context of proxy.
CtxErr_Shared(k) == cancelled

\* ctx.Err() != nil in ConnectWithRetries: transmit passes the proxy's ctx to its
\* first ConnectWithRetries; WriteWithRetries is called with context.TODO(), which
\* is never done. A worker holds a record exactly while it is in WriteWithRetries.
CtxErr(k) == IF held[k] = None THEN cancelled ELSE FALSE

\* Mutant: the delay doubles without a cap.
NextDelay_NoCap(d) == d * 2

\* delay *= 2; if delay > 30*time.Second { delay = 30 * time.Second }
NextDelay(d) == IF d * 2 > MaxDelay THEN MaxDelay ELSE d * 2

\* time.Sleep(delay), recorded.
Sleep(k) ==
    sleeps' = [sleeps EXCEPT ![k] = IF Len(@) < sleepsMax THEN Append(@, delay[k]) ELSE @]

\* Mutant: reconnect as soon as 5 minutes have passed.
ReconnectDue_AtFive(k) == since[k] >= ReconnectAfter

\* time.Since(w.lastReconnect) > 5*time.Minute
ReconnectDue(k) == since[k] > ReconnectAfter

\* Mutant: Close forgets the connection without closing it.
Close_DropHandle(k) ==
    /\ conn' = [conn EXCEPT ![k] = NoConn]
    /\ since' = [since EXCEPT ![k] = 0]
    /\ UNCHANGED openConns

\* w.Close(): if w.conn != nil { w.conn.Close(); w.conn = nil }
\* (since[k] is the age of the worker's connection, 0 while it has none:
\* w.lastReconnect is read only when w.conn != nil.)
Close(k) ==
    /\ conn' = [conn EXCEPT ![k] = NoConn]
    /\ openConns' = [openConns EXCEPT ![k] = IF Connected(k) THEN @ - 1 ELSE @]
    /\ since' = [since EXCEPT ![k] = 0]

\* The head of ConnectWithRetries: delay := 2s; targetIdx := w.targetIdx.
EnterConnect(k) ==
    /\ wpc' = [wpc EXCEPT ![k] = "dial"]
    /\ delay' = [delay EXCEPT ![k] = InitialDelay]
    /\ sleeps' = [sleeps EXCEPT ![k] = <<>>]
    /\ dialIdx' = [dialIdx EXCEPT ![k] = targetIdx[k]]

\* ConnectWithRetries returns: its locals delay and targetIdx are gone (they are
\* kept at their initial values while the worker is outside ConnectWithRetries).
LeaveConnect(k) ==
    /\ delay' = [delay EXCEPT ![k] = InitialDelay]
    /\ sleeps' = [sleeps EXCEPT ![k] = <<>>]
    /\ dialIdx' = [dialIdx EXCEPT ![k] = targetIdx[k]]

\* w.target = w.targets[targetIdx]; net.DialTimeout succeeds: w.Close(); w.conn = conn;
\* w.lastReconnect = time.Now(); return nil. The caller goes on: transmit to its
\* select loop, WriteWithRetries to w.Write.
DialOK(k) ==
    /\ wpc[k] = "dial"
    /\ conn' = [conn EXCEPT ![k] = dialIdx[k]]
    /\ openConns' = [openConns EXCEPT ![k] = (IF Connected(k) THEN @ - 1 ELSE @) + 1]
    /\ since' = [since EXCEPT ![k] = 0]
    /\ LeaveConnect(k)
    /\ wpc' = [wpc EXCEPT ![k] = IF held[k] = None THEN "select" ELSE "write"]
    /\ UNCHANGED <<proxyVars, framerVars, queue, logVars, bufVars,
                   targetIdx, idleCount, exit, held>>

\* Mutant: ConnectWithRetries never looks at its context.
DialFail_IgnoreCtx(k) ==
    /\ wpc[k] = "dial"
    /\ Sleep(k)
    /\ delay' = [delay EXCEPT ![k] = NextDelay(@)]
    /\ \E t \in 0 .. (ntargets - 1) : dialIdx' = [dialIdx EXCEPT ![k] = t]
    /\ UNCHANGED <<proxyVars, framerVars, queue, logVars, bufVars,
                   wpc, targetIdx, conn, openConns, since, idleCount, exit, held>>

\* net.DialTimeout fails: return err if the context is done; else
\* time.Sleep(delay), double the delay up to 30s, pick a random target and dial
\* again. On the error transmit returns; WriteWithRetries drops the error of
\* ConnectIfNeeded and goes on to w.Write.
DialFail(k) ==
    /\ wpc[k] = "dial"
    /\ IF CtxErr(k)
       THEN /\ LeaveConnect(k)
            /\ wpc' = [wpc EXCEPT ![k] = IF held[k] = None THEN "done" ELSE "write"]
       ELSE /\ Sleep(k)
            /\ delay' = [delay EXCEPT ![k] = NextDelay(@)]
            /\ \E t \in 0 .. (ntargets - 1) : dialIdx' = [dialIdx EXCEPT ![k] = t]
            /\ UNCHANGED wpc
    /\ UNCHANGED <<proxyVars, framerVars, queue, logVars, bufVars,
                   targetIdx, conn, openConns, since, idleCount, exit, held>>

\* case <-timer.C: idleCount++; if exit && idleCount >= 5 { w.Close(); return }
\* (idleCount is kept up to IdleTicks: only idleCount >= 5 is ever read.)
SelectTick(k) ==
    /\ wpc[k] = "select"
    /\ LET n == Min(idleCount[k] + 1, IdleTicks) IN
         /\ idleCount' = [idleCount EXCEPT ![k] = n]
         /\ IF exit[k] /\ n >= IdleTicks
            THEN Close(k) /\ wpc' = [wpc EXCEPT ![k] = "done"]
            ELSE UNCHANGED <<conn, openConns, since, wpc>>
    /\ UNCHANGED <<proxyVars, framerVars, queue, logVars, bufVars,
                   targetIdx, dialIdx, delay, sleeps, exit, held>>

\* Mutant: the idle ticks are counted from the moment the cancellation is seen.
SelectDone_ResetIdle(k) ==
    /\ wpc[k] = "select"
    /\ cancelled /\ ~exit[k]
    /\ exit' = [exit EXCEPT ![k] = TRUE]
    /\ idleCount' = [idleCount EXCEPT ![k] = 0]
    /\ UNCHANGED <<proxyVars, framerVars, queue, logVars, bufVars,
                   wpc, targetIdx, dialIdx, delay, sleeps, conn, openConns, since, held>>

\* case <-doneChan: exit = true; doneChan = nil
SelectDone(k) ==
    /\ wpc[k] = "select"
    /\ cancelled /\ ~exit[k]
    /\ exit' = [exit EXCEPT ![k] = TRUE]
    /\ UNCHANGED <<proxyVars, framerVars, queue, logVars, bufVars,
                   wpc, targetIdx, dialIdx, delay, sleeps, conn, openConns, since, idleCount, held>>

\* w.ConnectIfNeeded(ctx) at the head of the loop of WriteWithRetries: connect if
\* w.conn == nil, Reconnect (Close, then ConnectWithRetries) after 5 minutes,
\* else go on to w.Write.
ConnectIfNeeded(k) ==
    IF ~Connected(k)
    THEN EnterConnect(k) /\ UNCHANGED <<conn, openConns, since>>
    ELSE IF ReconnectDue(k)
         THEN Close(k) /\ EnterConnect(k)
         ELSE /\ wpc' = [wpc EXCEPT ![k] = "write"]
              /\ UNCHANGED <<delay, sleeps, dialIdx, conn, openConns, since>>

\* case b = <-outputChan: idleCount = 0; w.WriteWithRetries(context.TODO(), b.Bytes()),
\* up to its first w.Write or net.DialTimeout.
Dequeue(k) ==
    /\ wpc[k] = "select"
    /\ queue # <<>>
    /\ held' = [held EXCEPT ![k] = Head(queue)]
    /\ hbuf' = [hbuf EXCEPT ![k] = Head(qbuf)]
    /\ queue' = Tail(queue) /\ qbuf' = Tail(qbuf)
    /\ dequeued' = Append(dequeued, Head(queue))
    /\ idleCount' = [idleCount EXCEPT ![k] = 0]
    /\ ConnectIfNeeded(k)
    /\ UNCHANGED <<proxyVars, framerVars, enqueued, written, bufCap, pool, fbuf,
                   targetIdx, exit>>

\* w.Write(b) succeeds: WriteWithRetries returns, the worker is back at its select.
WriteOK(k) ==
    /\ wpc[k] = "write" /\ Connected(k)
    /\ written' = Append(written, held[k])
    /\ pool' = Release(hbuf[k], held[k].data)
    /\ held' = [held EXCEPT ![k] = None]
    /\ hbuf' = [hbuf EXCEPT ![k] = 0]
    /\ wpc' = [wpc EXCEPT ![k] = "select"]
    /\ UNCHANGED <<proxyVars, framerVars, queue, enqueued, dequeued, bufCap, fbuf, qbuf,
                   targetIdx, dialIdx, delay, sleeps, conn, openConns, since, idleCount, exit>>

\* Mutant: WriteWithRetries returns the error of a failed write to its caller.
WriteFail_Abandon(k) ==
    /\ wpc[k] = "write" /\ Connected(k)
    /\ Close(k)
    /\ held' = [held EXCEPT ![k] = None]
    /\ hbuf' = [hbuf EXCEPT ![k] = 0]
    /\ pool' = Release(hbuf[k], held[k].data)
    /\ wpc' = [wpc EXCEPT ![k] = "select"]
    /\ UNCHANGED <<proxyVars, framerVars, queue, logVars, bufCap, fbuf, qbuf,
                   targetIdx, dialIdx, delay, sleeps, idleCount, exit>>

\* w.Write(b) fails: w.Close(), and round the loop of WriteWithRetries:
\* ConnectIfNeeded finds w.conn == nil and runs ConnectWithRetries.
WriteFail(k) ==
    /\ wpc[k] = "write" /\ Connected(k)
    /\ Close(k)
    /\ EnterConnect(k)
    /\ UNCHANGED <<proxyVars, framerVars, queue, logVars, bufVars,
                   targetIdx, idleCount, exit, held>>

\* A minute passes: time.Since(w.lastReconnect) grows for every open connection
\* (kept up to ReconnectAfter + 1: only > 5 minutes is ever read).
MinutePasses ==
    /\ \E k \in Workers : Connected(k) /\ since[k] <= ReconnectAfter
    /\ since' = [k \in Workers |->
                   IF Connected(k) THEN Min(since[k] + 1, ReconnectAfter + 1) ELSE since[k]]
    /\ UNCHANGED <<proxyVars, framerVars, queue, logVars, bufVars,
                   wpc, targetIdx, dialIdx, delay, sleeps, conn, openConns, idleCount, exit, held>>

\* ------------------------------------------------------------ specification
ProxyStep  == Cancel \/ ProxySpawn \/ CloseListener \/ AcceptFail \/ ProxyReturn
FramerStep(i) ==
    \/ Accept(i) \/ ConnWatcher(i)
    \/ (\E w \in Windows : ReadWindow(i, w))
    \/ Send(i) \/ ReadEOF(i) \/ ReadClosed(i) \/ SendFinal(i)
WorkerStep(k) ==
    \/ DialOK(k) \/ DialFail(k)
    \/ SelectTick(k) \/ SelectDone(k) \/ Dequeue(k)
    \/ WriteOK(k) \/ WriteFail(k)

\* Every step of the proxy but the passing of time.
Next ==
    \/ ProxyStep
    \/ \E i \in Inbound : FramerStep(i)
    \/ \E k \in Workers : WorkerStep(k)

\* The whole proxy, one target, no time passing on the reconnect timer.
Spec == Init /\ [][Next]_vars

\* One worker on each of two targets while the proxy runs (no termination
\* request, the accept loop goes on), the reconnect timer running.
InitTimed == InitWith(FailoverConfigs, MaxStream)
NextTimed ==
    \/ ProxySpawn
    \/ \E i \in Inbound :
         \/ Accept(i)
         \/ (\E w \in Windows : ReadWindow(i, w))
         \/ Send(i) \/ ReadEOF(i) \/ SendFinal(i)
    \/ \E k \in Workers :
         \/ DialOK(k) \/ DialFail(k)
         \/ SelectTick(k) \/ Dequeue(k)
         \/ WriteOK(k) \/ WriteFail(k)
    \/ MinutePasses
SpecTimed == InitTimed /\ [][NextTimed]_vars

\* One worker, enough input to fill outputChan.
InitQueue == InitWith({<<1, 1>>}, MaxQueueStream)
SpecQueue == InitQueue /\ [][Next]_vars

\* Start-up of every pool of up to MaxPool workers: the loop of proxy and each
\* worker's first ConnectWithRetries.
InitPool == InitWith(PoolConfigs, 0)
\* The first failed dial of a worker: delay still holds its initial value.
FirstDialFail(k) == delay[k] = InitialDelay /\ DialFail(k)
NextPool == ProxySpawn \/ \E k \in Workers : DialOK(k) \/ FirstDialFail(k)
SpecPool == InitPool /\ [][NextPool]_vars

\* Framing: one inbound connection with longer read windows, one worker whose
\* dials and writes succeed, no termination request.
InitFrame == InitWith({<<1, 1>>}, MaxFrameStream)
NextFrame ==
    \/ ProxySpawn
    \/ \E i \in Inbound :
         \/ Accept(i)
         \/ (\E w \in FrameWindows : ReadWindow(i, w))
         \/ Send(i) \/ ReadEOF(i) \/ SendFinal(i)
    \/ \E k \in Workers : DialOK(k) \/ Dequeue(k) \/ WriteOK(k)
SpecFrame == InitFrame /\ [][NextFrame]_vars

\* The whole proxy with one worker, the reconnect timer running.
InitConn == InitWith({<<1, 1>>}, MaxStream)
NextConn == Next \/ MinutePasses
SpecConn == InitConn /\ [][NextConn]_vars

\* bufPool: one inbound connection and one worker while the proxy runs; Get may
\* hand out a buffer that was Put, and a Write may take a buffer to a capacity
\* of exactly 1 MiB or above it.
InitBuf == InitPooled({<<1, 1>>}, MaxPoolStream, 0, TRUE, {PoolMaxCap, PoolMaxCap + 1})
NextBuf ==
    \/ ProxySpawn
    \/ \E i \in Inbound :
         \/ Accept(i)
         \/ (\E w \in Windows : ReadWindow(i, w))
         \/ Send(i) \/ ReadEOF(i) \/ SendFinal(i)
    \/ \E k \in Workers :
         \/ DialOK(k)
         \/ Dequeue(k)
         \/ WriteOK(k) \/ WriteFail(k)
SpecBuf == InitBuf /\ [][NextBuf]_vars

\* Backoff: one worker (one or two targets) and one record, the sleeps of each
\* ConnectWithRetries recorded; a termination request may arrive.
InitBackoff == InitTraced({<<1, 1>>, <<1, 2>>}, 1, MaxSleeps)
NextBackoff ==
    \/ Cancel \/ ProxySpawn
    \/ \E i \in Inbound :
         \/ Accept(i)
         \/ (\E w \in Windows : ReadWindow(i, w))
         \/ Send(i)
    \/ \E k \in Workers :
         \/ DialOK(k) \/ DialFail(k)
         \/ Dequeue(k)
         \/ WriteOK(k) \/ WriteFail(k)
SpecBackoff == InitBackoff /\ [][NextBackoff]_vars

\* Scheduling: every goroutine that can take a step takes one, a dial and a
\* write return (with either outcome), the ticker ticks, Accept fails on a
\* closed listener. Nothing makes a dial or a write succeed, the peer send or
\* close, or the signal arrive: a worker all of whose dials fail stays where it
\* is once its delay has reached 30s (DialFail then leaves the state as it is).
AcceptClosed == AcceptFail /\ ~listenerOpen
Fairness ==
    /\ WF_vars(ProxySpawn) /\ WF_vars(CloseListener)
    /\ WF_vars(AcceptClosed) /\ WF_vars(ProxyReturn)
    /\ \A i \in Inbound :
         /\ WF_vars(ConnWatcher(i)) /\ WF_vars(ReadClosed(i))
         /\ WF_vars(Send(i)) /\ WF_vars(SendFinal(i))
    /\ \A k \in Workers :
         /\ WF_vars(DialFail(k))
         /\ WF_vars(WriteOK(k) \/ WriteFail(k))
         /\ WF_vars(SelectTick(k)) /\ WF_vars(SelectDone(k)) /\ WF_vars(Dequeue(k))
InitFair == InitWith({<<1, 1>>}, MaxQueueStream) \/ InitWith({<<2, 1>>}, 1)
FairSpec == InitFair /\ [][Next]_vars /\ Fairness

\* ------------------------------------------------------------ properties
Range(q) == {q[j] : j \in 1 .. Len(q)}
Count(q, x) == Cardinality({j \in 1 .. Len(q) : q[j] = x})
\* q and r hold the same records, each as often.
SameRecords(q, r) ==
    /\ Len(q) = Len(r)
    /\ \A x \in Range(q) \cup Range(r) : Count(q, x) = Count(r, x)
\* The bytes of the records of connection i among q, in the order of q.
RECURSIVE DataOf(_, _)
DataOf(q, i) ==
    IF q = <<>> THEN <<>>
    ELSE (IF Head(q).src = i THEN Head(q).data ELSE <<>>) \o DataOf(Tail(q), i)

\* C1 (as claimed): once the peer has closed its stream cleanly, the records
\* written successfully, taken in the order they were framed, are the stream
\* byte for byte. When proxy has returned no write can follow, so by then the
\* whole stream must have been written.
C1_StreamDelivered ==
    \A i \in Inbound :
        (eof[i] /\ ppc = "returned") =>
            /\ SameRecords(written, enqueued)
            /\ DataOf(enqueued, i) = Flatten(inbound[i])

\* C2: a worker that holds a record gives it up only by a successful write of
\* that record; it neither exits nor takes another record while it holds one,
\* and a failed write closes the connection and leads back to connecting.
C2_WriteNeverAbandoned ==
    [][\A k \in Workers :
          held[k] # None =>
            /\ \/ held'[k] = held[k]
               \/ /\ held'[k] = None
                  /\ written' = Append(written, held[k])
                  /\ wpc[k] = "write" /\ Connected(k)
            /\ wpc'[k] # "done"
            /\ (dequeued' # dequeued => wpc'[k] = wpc[k])
            /\ (wpc[k] = "write" /\ wpc'[k] # "write" /\ held'[k] = held[k]
                  => ~Connected(k)' /\ wpc'[k] = "dial" /\ dialIdx'[k] = targetIdx[k])
            /\ (wpc'[k] = "write" => Connected(k)')
      ]_vars

\* A worker whose write failed and whose next dial failed still holds the
\* record, while another record was already written.
C2_Witness ==
    \E k \in Workers :
        /\ held[k] # None /\ wpc[k] = "dial" /\ delay[k] > InitialDelay
        /\ written # <<>>

\* C3 (as claimed): when proxy returns after a termination request, outputChan
\* is empty and every record a Framer enqueued has been written.
C3_DrainedOnReturn ==
    (cancelled /\ ppc = "returned") =>
        /\ queue = <<>>
        /\ SameRecords(written, enqueued)

\* C10 (as claimed): a worker leaves its loop only when it has observed
\* cancellation, has counted 5 ticks since its last record, holds no record,
\* and no record is waiting in outputChan.
C10_DrainExit ==
    [][\A k \in Workers :
          (wpc[k] = "select" /\ wpc'[k] = "done") =>
            /\ exit[k] /\ idleCount'[k] >= IdleTicks
            /\ held[k] = None
            /\ queue = <<>>
      ]_vars

\* C4 (as claimed): once the context is cancelled every worker terminates and
\* proxy returns, whatever the workers are waiting in.
C4_CancelTerminates == cancelled ~> (ppc = "returned")

\* C4 (amended): once the context is cancelled every worker terminates and
\* proxy returns, unless some worker stays in WriteWithRetries for ever with a
\* record it cannot write.
C4_CancelTerminatesUnlessWriting ==
    \/ cancelled ~> (ppc = "returned")
    \/ \E k \in Workers : <>[](held[k] # None)

\* proxy has returned: one worker left its first ConnectWithRetries on the
\* cancelled context (it never reached its loop), another drained and left.
C4_Witness ==
    /\ cancelled /\ ppc = "returned"
    /\ \E k \in Workers : wpc[k] = "done" /\ ~exit[k]
    /\ \E k \in Workers : wpc[k] = "done" /\ exit[k]

\* A Framer stands at out <- stringbuf, in its loop or after it.
AtSend(i) == fpc[i] \in {"send", "sendFinal"}

\* C7 (as claimed): while no termination is requested, a Framer that has a
\* record to enqueue gets to enqueue it, whatever happens to the dials and
\* writes of the workers.
C7_FramerNeverBlocked ==
    \A i \in Inbound : AtSend(i) ~> (~AtSend(i) \/ cancelled)

\* C7 (amended): the workers' failures reach a Framer only as back pressure:
\* a Framer waits nowhere but at out <- stringbuf, and there it can go on
\* whenever outputChan holds fewer than (connections * targets) * 2 records,
\* wherever the workers stand; its read never waits for a worker.
C7_OnlyBackPressure ==
    \A i \in Inbound :
        /\ AtSend(i) =>
             (Len(queue) < (connections * ntargets) * 2 => ENABLED (Send(i) \/ SendFinal(i)))
        /\ (fpc[i] = "read" /\ ~connClosed[i]) => ENABLED ReadEOF(i)
        /\ (fpc[i] = "read" /\ connClosed[i]) => ENABLED ReadClosed(i)

\* The worker has failed to dial four times and more, outputChan is full and
\* the Framer waits with its next record.
C7_Witness ==
    /\ ~cancelled
    /\ \E i \in Inbound : fpc[i] = "send" /\ Len(queue) = (connections * ntargets) * 2
    /\ \A k \in Workers : Spawned(k) => wpc[k] = "dial" /\ delay[k] = MaxDelay

SplitsAtLastNewline(w, p, q) ==
    /\ w = p \o q
    /\ p # <<>> /\ p[Len(p)] = NL
    /\ \A j \in 1 .. Len(q) : q[j] # NL

Prefixes(w) == {SubSeq(w, 1, n) : n \in 0 .. Len(w)}
Suffixes(w) == {SubSeq(w, n, Len(w)) : n \in 1 .. (Len(w) + 1)}

\* C6: a window w read on top of the residual r: if w holds a newline, the one
\* record r followed by w up to its last newline is enqueued and the residual
\* is what follows that newline; if not, nothing is enqueued and the residual
\* is r followed by w. The windows "a\nb\nc" and "d\n" give the records
\* "a\nb\n" and "cd\n".
C6_Framing ==
    /\ [][\A i \in Inbound :
            /\ inbound'[i] # inbound[i] =>
                 LET w == inbound'[i][Len(inbound'[i])]
                     r == stringbuf[i]
                 IN  IF \E j \in 1 .. Len(w) : w[j] = NL
                     THEN \E p \in Prefixes(w), q \in Suffixes(w) :
                            /\ SplitsAtLastNewline(w, p, q)
                            /\ stringbuf'[i] = r \o p /\ rest'[i] = q
                            /\ fpc'[i] = "send" /\ enqueued' = enqueued
                     ELSE /\ stringbuf'[i] = r \o w /\ rest'[i] = <<>>
                          /\ fpc'[i] = "read" /\ enqueued' = enqueued
            /\ (fpc[i] = "send" /\ fpc'[i] # "send") =>
                 /\ enqueued' = Append(enqueued, Rec(i, stringbuf[i]))
                 /\ stringbuf'[i] = rest[i] /\ fpc'[i] = "read"
       ]_vars
    /\ [](\A i \in Inbound :
            (inbound[i] = <<ExampleWindow1, ExampleWindow2>> /\ fpc[i] = "read") =>
                /\ enqueued = << Rec(i, <<"a", NL, "b", NL>>), Rec(i, <<"c", "d", NL>>) >>
                /\ stringbuf[i] = <<>>)

\* The two windows of the example have been read and framed.
C6_Witness ==
    \E i \in Inbound :
        /\ inbound[i] = <<ExampleWindow1, ExampleWindow2>> /\ fpc[i] = "read"
        /\ Len(enqueued) = 2

\* The workers proxy has started.
Started == {k \in Workers : wpc[k] # "none"}

\* C8: proxy starts connections * targets workers, worker i with the primary
\* target i mod targets, so each target is the primary of connections workers;
\* the first dial of a worker goes to its primary.
C8_PoolPartition ==
    /\ Cardinality(Started) <= connections * ntargets
    /\ ppc # "spawn" => Cardinality(Started) = connections * ntargets
    /\ \A k \in Started : targetIdx[k] = k % ntargets
    /\ ppc # "spawn" =>
         \A t \in 0 .. (ntargets - 1) :
             Cardinality({k \in Started : targetIdx[k] = t}) = connections
    /\ \A k \in Started :
         (wpc[k] = "dial" /\ delay[k] = InitialDelay) => dialIdx[k] = targetIdx[k]

\* Two workers for each of two targets, all started and connected.
C8_Witness ==
    /\ connections = 2 /\ ntargets = 2 /\ ppc = "accept"
    /\ \A k \in Started : wpc[k] = "select"
    /\ \E k \in Started : conn[k] # targetIdx[k]

\* C9: outputChan never holds more than (connections * targets) * 2 records;
\* a send waits exactly when it holds that many; the records leave it in the
\* order they entered it and none is dropped.
C9_BoundedFifo ==
    /\ Len(queue) <= (connections * ntargets) * 2
    /\ enqueued = dequeued \o queue
    /\ \A i \in Inbound :
         AtSend(i) =>
            (ENABLED (Send(i) \/ SendFinal(i)) <=> Len(queue) < (connections * ntargets) * 2)

\* outputChan is full and the Framer waits with one more record.
C9_Witness ==
    /\ Len(queue) = (connections * ntargets) * 2
    /\ \E i \in Inbound : fpc[i] = "send"

RECURSIVE Pow2(_)
Pow2(n) == IF n = 0 THEN 1 ELSE 2 * Pow2(n - 1)

\* C11: in one run of ConnectWithRetries the sleep after the j-th failed dial
\* lasts min(2 * 2^(j-1), 30) seconds: 2, 4, 8, 16, 30, 30, ...; the sleeps
\* never exceed 30 s and never shorten; every run starts again with 2 s.
C11_BackoffSchedule ==
    \A k \in Workers :
        LET s == sleeps[k] IN
        /\ \A j \in 1 .. Len(s) :
              /\ s[j] = Min(2 * Pow2(j - 1), 30)
              /\ s[j] <= 30
              /\ j > 1 => s[j - 1] <= s[j]
        /\ (wpc[k] = "dial" /\ Len(s) < sleepsMax) => delay[k] = Min(2 * Pow2(Len(s)), 30)

\* A worker that had connected before, now in the ConnectWithRetries of
\* WriteWithRetries, has slept six times and more: 2, 4, 8, 16, 30, 30.
C11_Witness ==
    \E k \in Workers :
        /\ held[k] # None /\ wpc[k] = "dial"
        /\ Len(sleeps[k]) >= 6 /\ sleeps[k][1] = 2 /\ sleeps[k][6] = 30

\* C12 (as claimed): once the context is cancelled every receive goroutine
\* that runs comes to its end, its last bytes sent on outputChan: none stays
\* at conn.Read or at out <- stringbuf for ever.
C12_FramersExit ==
    cancelled ~> (\A i \in Inbound : fpc[i] \in {"idle", "done"})

\* C13: proxy returns only when it has started all its workers and every one
\* of them has returned from transmit; the listener is closed only on
\* cancellation and is closed once the context is cancelled; no connection is
\* accepted from a closed listener or after the accept loop was left.
C13_ReturnsAfterWorkers ==
    /\ [](ppc = "returned" =>
            /\ spawnIdx = connections * ntargets
            /\ \A k \in Workers : k < connections * ntargets => wpc[k] = "done")
    /\ [](~listenerOpen => cancelled)
    /\ cancelled ~> ~listenerOpen
    /\ [][\A i \in Inbound :
            (fpc[i] = "idle" /\ fpc'[i] # "idle") => (listenerOpen /\ ppc = "accept")
       ]_vars

\* proxy has returned with two workers, one that left its first
\* ConnectWithRetries and one that drained; the listener is closed.
C13_Witness ==
    /\ ppc = "returned" /\ ~listenerOpen /\ connections = 2
    /\ wpc[0] = "done" /\ ~exit[0]
    /\ wpc[1] = "done" /\ exit[1]

\* C18: proxy returns nil whatever ended its accept loop; once the loop has
\* ended no connection is accepted any more; a worker ends only on
\* cancellation, so a proxy whose accept failed before cancellation waits
\* for its workers until the context is cancelled.
C18_AcceptErrorDropped ==
    /\ [](ret = IF ppc = "returned" THEN "nil" ELSE "none")
    /\ [](\A k \in Workers : wpc[k] = "done" => cancelled)
    /\ [](ppc = "returned" => cancelled)
    /\ [][/\ ppc \in {"wait", "returned"} => ppc' \in {"wait", "returned"}
          /\ ppc \in {"wait", "returned"} => fpc' = fpc \/ \A i \in Inbound : fpc[i] # "idle"
          /\ (ppc = "accept" /\ ppc' # "accept") => ppc' = "wait"
       ]_vars

\* Accept failed while the listener was open and no termination was
\* requested: proxy waits for workers that are still at work.
C18_Witness ==
    /\ ppc = "wait" /\ ~cancelled /\ listenerOpen
    /\ \E k \in Workers : wpc[k] = "select"

\* C15: every record a receive goroutine sends on outputChan, in its loop or
\* at its end, holds at least one byte.
C15_NoEmptyRecord ==
    /\ \A j \in 1 .. Len(enqueued) : Len(enqueued[j].data) >= 1
    /\ \A j \in 1 .. Len(queue) : Len(queue[j].data) >= 1
    /\ \A i \in Inbound : AtSend(i) => Len(stringbuf[i]) >= 1

\* The stream began with a newline, which went out as a record of one byte,
\* and the peer closed when stringbuf was empty: receive ended without a
\* final record.
C15_Witness ==
    \E i \in Inbound :
        /\ eof[i] /\ fpc[i] = "done" /\ stringbuf[i] = <<>>
        /\ inbound[i] # <<>> /\ Head(inbound[i])[1] = NL
        /\ enqueued # <<>> /\ Head(enqueued).data = <<NL>>
        /\ Flatten(inbound[i]) = DataOf(enqueued, i)

\* C16: whenever a worker stands at w.Write its w.conn is not nil: the
\* ConnectWithRetries of WriteWithRetries ends only with a dial that
\* succeeded, also when the context of proxy is cancelled.
C16_WriteConnected ==
    /\ [](\A k \in Workers : wpc[k] = "write" => Connected(k))
    /\ [][\A k \in Workers :
            (wpc[k] = "dial" /\ held[k] # None /\ wpc'[k] # "dial")
                => (wpc'[k] = "write" /\ Connected(k)' /\ ~Connected(k))
       ]_vars

\* A worker that had observed the cancellation took a record, found its
\* connection gone and has failed to dial since: it goes on dialing.
C16_Witness ==
    \E k \in Workers :
        /\ cancelled /\ exit[k] /\ held[k] # None
        /\ wpc[k] = "dial" /\ delay[k] > InitialDelay

\* C19: idleCount goes up by one at every tick, cancelled or not, and back
\* to 0 only when the worker takes a record; the worker leaves its loop only
\* at a tick, with exit already set and idleCount at 5 by then; the step
\* that sets exit changes nothing else; and with exit set and four ticks
\* counted the next tick ends the worker.
C19_IdleCounting ==
    [][\A k \in Workers :
          /\ idleCount'[k] # idleCount[k] =>
                \/ /\ idleCount'[k] = idleCount[k] + 1
                   /\ wpc[k] = "select" /\ held'[k] = None /\ queue' = queue
                \/ /\ idleCount'[k] = 0
                   /\ wpc[k] = "select" /\ held'[k] # None /\ dequeued' # dequeued
          /\ (wpc[k] = "select" /\ wpc'[k] = "done") =>
                /\ exit[k] /\ exit'[k]
                /\ idleCount'[k] >= 5 /\ idleCount[k] >= 4
          /\ exit'[k] # exit[k] =>
                /\ exit'[k] /\ cancelled
                /\ wpc[k] = "select" /\ wpc'[k] = "select"
                /\ idleCount'[k] = idleCount[k]
          /\ SelectTick(k) =>
                /\ idleCount'[k] = Min(idleCount[k] + 1, 5)
                /\ wpc'[k] = IF exit[k] /\ idleCount[k] >= 4 THEN "done" ELSE "select"
      ]_vars

\* A worker counted four idle ticks and more before the termination request
\* and has just seen it: its next tick is its last.
C19_Witness ==
    \E k \in Workers :
        /\ wpc[k] = "select" /\ exit[k] /\ idleCount[k] >= 4
        /\ written # <<>> /\ queue # <<>>

C14_PoolRelease ==
    /\ [](\A b \in pool : bufCap[b.id] <= 1048576 /\ Len(b.data) = 0)
    /\ [][/\ \A k \in Workers :
               (held[k] # None /\ held'[k] = None) =>
                   ((\E b \in pool' : b.id = hbuf[k]) <=> bufCap[hbuf[k]] <= 1048576)
          /\ \A b \in pool' \ pool :
               \E k \in Workers :
                   /\ hbuf[k] = b.id /\ wpc[k] = "write"
                   /\ written' = Append(written, held[k])
       ]_vars

\* A buffer that grew beyond 1 MiB was written and is nowhere any more, while
\* a buffer of exactly 1 MiB is in bufPool.
C14_Witness ==
    /\ \E b \in pool : bufCap[b.id] = 1048576
    /\ \E n \in 1 .. Len(bufCap) :
          /\ bufCap[n] > 1048576
          /\ \A b \in pool : b.id # n
          /\ \A i \in Inbound : fbuf[i] # n
          /\ \A j \in 1 .. Len(qbuf) : qbuf[j] # n
          /\ \A k \in Workers : hbuf[k] # n

FramerBufs == {fbuf[i] : i \in {j \in Inbound : fpc[j] \in {"read", "send", "sendFinal"}}}
QueueBufs  == {qbuf[j] : j \in 1 .. Len(qbuf)}
WorkerBufs == {hbuf[k] : k \in {j \in Workers : hbuf[j] # 0}}
PoolBufs   == {b.id : b \in pool}

\* C20: a buffer is with one holder at most: the receive goroutine that fills
\* it, outputChan, the worker that writes it, or bufPool; each record in
\* outputChan and each worker's record has a buffer of its own, and
\* bufPool.Get never hands out a buffer that one of them holds.
C20_ExclusiveOwnership ==
    /\ FramerBufs \cap QueueBufs = {} /\ FramerBufs \cap WorkerBufs = {}
    /\ FramerBufs \cap PoolBufs = {} /\ QueueBufs \cap WorkerBufs = {}
    /\ QueueBufs \cap PoolBufs = {} /\ WorkerBufs \cap PoolBufs = {}
    /\ Len(qbuf) = Len(queue) /\ Cardinality(QueueBufs) = Len(qbuf)
    /\ Cardinality(PoolBufs) = Cardinality(pool)
    /\ \A k1, k2 \in Workers : (hbuf[k1] # 0 /\ hbuf[k1] = hbuf[k2]) => k1 = k2
    /\ \A k \in Workers : hbuf[k] # 0 <=> held[k] # None
    /\ \A n \in FramerBufs \cup QueueBufs \cup WorkerBufs \cup PoolBufs :
          n \in 1 .. Len(bufCap)

\* The first buffer was sent, written, Put and handed out again by Get, while
\* a later buffer waits in outputChan and another one is in bufPool.
C20_Witness ==
    /\ \E i \in Inbound : fpc[i] = "read" /\ fbuf[i] = 1
    /\ Len(bufCap) >= 3 /\ qbuf # <<>> /\ pool # {}
    /\ Len(written) >= 2

====
